---- MODULE Spec2Model ----
(***************************************************************************)
(* Model of src/app.py: the /upload handler and the five-stage cleaning    *)
(* pipeline clean_data, with the pandas operations it calls modelled by    *)
(* what they do on the values drawn here (pandas 1.x/2.x semantics, where  *)
(* an in-place fillna on df[col] writes through to df).                    *)
(*                                                                         *)
(* Text is a sequence of code points, so that stripping, suffix tests and  *)
(* sort order are computed and not assumed.  A float64 payload is the      *)
(* value counted in halves (1.0 is 2, 1.5 is 3), so that the mean of the   *)
(* two middle values of integer data is exact.                             *)
(***************************************************************************)
EXTENDS Integers, Sequences, FiniteSets, TLC

VARIABLES request, pc, df, str_cols, response

vars == <<request, pc, df, str_cols, response>>

(* Largest number of data rows of an uploaded table. *)
MaxRows == 4

-----------------------------------------------------------------------------
(* Cell values *)

NaN == [k |-> "nan", v |-> <<>>]
NaT == [k |-> "nat", v |-> <<>>]
Str(s) == [k |-> "str", v |-> s]
Num(halves) == [k |-> "num", v |-> <<halves>>]
Bool(b) == [k |-> "bool", v |-> <<b>>]
Timestamp(y, m, d) == [k |-> "date", v |-> <<y, m, d>>]

(* pandas.isna *)
IsNa(c) == c.k \in {"nan", "nat"}

-----------------------------------------------------------------------------
(* Text literals, as code points *)

S_x == <<120>>
S_x_padded == <<32, 120, 32>>
S_y == <<121>>
S_y_trailing == <<121, 32>>
S_blank == <<32>>
S_Unknown == <<85, 110, 107, 110, 111, 119, 110>>
S_NaT == <<78, 97, 84>>
S_2024_01_01 == <<50, 48, 50, 52, 45, 48, 49, 45, 48, 49>>
S_2024_03_10_leading == <<32, 50, 48, 50, 52, 45, 48, 51, 45, 49, 48>>
S_2024_02_30 == <<50, 48, 50, 52, 45, 48, 50, 45, 51, 48>>

Ext_csv == <<46, 99, 115, 118>>
Ext_xls == <<46, 120, 108, 115>>
Ext_xlsx == <<46, 120, 108, 115, 120>>
Name_data_csv == <<100>> \o Ext_csv
Name_book_xlsx == <<98>> \o Ext_xlsx
Name_old_xls == <<111>> \o Ext_xls
Name_notes_txt == <<110, 46, 116, 120, 116>>
Name_DATA_CSV == <<68, 46, 67, 83, 86>>

(* endswith after lower-casing the name *)
EndsWith_IgnoreCase(s, suffix) ==
    LET Lower(c) == IF c \in 65..90 THEN c + 32 ELSE c
        low == [i \in 1..Len(s) |-> Lower(s[i])]
    IN /\ Len(suffix) <= Len(s)
       /\ SubSeq(low, Len(s) - Len(suffix) + 1, Len(s)) = suffix

(* str.endswith *)
EndsWith(s, suffix) ==
    /\ Len(suffix) <= Len(s)
    /\ SubSeq(s, Len(s) - Len(suffix) + 1, Len(s)) = suffix

-----------------------------------------------------------------------------
(* Tables: a DataFrame is its column names, their dtypes, the row labels   *)
(* and the rows.                                                           *)

NRows(t) == Len(t.rows)
NCols(t) == Len(t.columns)
Loc(t, name) == CHOOSE j \in 1..NCols(t) : t.columns[j] = name
Column(t, name) == [i \in 1..NRows(t) |-> t.rows[i][Loc(t, name)]]

Kinds(cells) == {cells[i].k : i \in {i \in DOMAIN cells : ~IsNa(cells[i])}}
HasNa(cells) == \E i \in DOMAIN cells : IsNa(cells[i])

(* The dtype the readers give a parsed column. *)
InferColumnDtype(cells) ==
    IF Len(cells) = 0 THEN "object"
    ELSE IF Kinds(cells) = {} THEN "float64"
    ELSE IF Kinds(cells) = {"num"} THEN
        (IF HasNa(cells) \/ \E i \in DOMAIN cells : cells[i].v[1] % 2 = 1
         THEN "float64" ELSE "int64")
    ELSE IF Kinds(cells) = {"bool"} /\ ~HasNa(cells) THEN "bool"
    ELSE IF Kinds(cells) = {"date"} THEN "datetime64"
    ELSE "object"

(* pd.read_csv / pd.read_excel on content that parses: a default 0..n-1    *)
(* index, an inferred dtype per column, and an empty cell read as NaN, or  *)
(* as NaT in a column of dates.                                            *)
ReadTable(grid) ==
    LET dtypes == [j \in 1..Len(grid.header) |->
                     InferColumnDtype([i \in 1..Len(grid.cells) |-> grid.cells[i][j]])]
    IN [columns |-> grid.header,
        dtypes |-> dtypes,
        index |-> [i \in 1..Len(grid.cells) |-> i - 1],
        rows |-> [i \in 1..Len(grid.cells) |->
                    [j \in 1..Len(grid.header) |->
                        IF ~IsNa(grid.cells[i][j]) THEN grid.cells[i][j]
                        ELSE IF dtypes[j] = "datetime64" THEN NaT ELSE NaN]]]

EmptyFrame == [columns |-> <<>>, dtypes |-> <<>>, index |-> <<>>, rows |-> <<>>]

-----------------------------------------------------------------------------
(* Stage 1 *)

Duplicated(t) ==
    [i \in 1..NRows(t) |-> \E j \in 1..(i - 1) : t.rows[j] = t.rows[i]]

RECURSIVE Keep(_, _)
Keep(mask, i) ==
    IF i > Len(mask) THEN <<>>
    ELSE (IF mask[i] THEN <<>> ELSE <<i>>) \o Keep(mask, i + 1)

(* drop_duplicates(keep='last') *)
DropDuplicates_KeepLast(t) ==
    LET mask == [i \in 1..NRows(t) |->
                    \E j \in (i + 1)..NRows(t) : t.rows[j] = t.rows[i]]
        kept == Keep(mask, 1)
    IN [t EXCEPT !.index = [i \in 1..Len(kept) |-> t.index[kept[i]]],
                 !.rows = [i \in 1..Len(kept) |-> t.rows[kept[i]]]]

DropDuplicates(t) ==
    LET kept == Keep(Duplicated(t), 1)
    IN [t EXCEPT !.index = [i \in 1..Len(kept) |-> t.index[kept[i]]],
                 !.rows = [i \in 1..Len(kept) |-> t.rows[kept[i]]]]

-----------------------------------------------------------------------------
(* Stage 2 *)

(* DataFrame.select_dtypes(include=...).columns *)
SelectDtypes(t, include) ==
    LET Test(name) == t.dtypes[Loc(t, name)] \in include
    IN SelectSeq(t.columns, Test)

(* the cells stored as a new last column, the old one left in place *)
SetColumn_Appends(t, name, cells, dtype) ==
    [t EXCEPT !.columns = Append(t.columns, name),
              !.dtypes = Append(t.dtypes, dtype),
              !.rows = [i \in 1..NRows(t) |-> Append(t.rows[i], cells[i])]]

(* df[name] = cells *)
SetColumn(t, name, cells, dtype) ==
    [t EXCEPT !.dtypes[Loc(t, name)] = dtype,
              !.rows = [i \in 1..NRows(t) |->
                           [t.rows[i] EXCEPT ![Loc(t, name)] = cells[i]]]]

(* str.isspace, for the code points below 256 *)
IsSpace(c) == c \in {9, 10, 11, 12, 13, 28, 29, 30, 31, 32, 133, 160}

RECURSIVE LStrip(_)
LStrip(s) ==
    IF s # <<>> /\ IsSpace(Head(s)) THEN LStrip(Tail(s)) ELSE s

RECURSIVE RStrip(_)
RStrip(s) ==
    IF s # <<>> /\ IsSpace(s[Len(s)]) THEN RStrip(SubSeq(s, 1, Len(s) - 1)) ELSE s

(* str.lstrip() *)
Strip_LeftOnly(s) == LStrip(s)

(* str.strip() *)
Strip(s) == RStrip(LStrip(s))

(* pandas.api.types.infer_dtype(values, skipna=True) *)
InferDtype(cells) ==
    IF Kinds(cells) = {} THEN "empty"
    ELSE IF Kinds(cells) = {"str"} THEN "string"
    ELSE IF Kinds(cells) = {"bool"} THEN "boolean"
    ELSE IF Kinds(cells) = {"num"} THEN "floating"
    ELSE IF Kinds(cells) = {"date"} THEN "datetime"
    ELSE "mixed"

(* Series.str raises AttributeError unless the inferred type is allowed. *)
StrAccessorOk(cells) == InferDtype(cells) \in {"string", "empty", "mixed"}

(* Series.str.strip(): a value that is not text comes back missing. *)
StrStrip(cells) ==
    [i \in 1..Len(cells) |->
        IF cells[i].k = "str" THEN Str(Strip(cells[i].v)) ELSE NaN]

(* The loop of lines 97-98 from its j-th column on; the first column whose *)
(* .str accessor raises ends it with the earlier columns already stripped. *)
RECURSIVE StripColumns(_, _, _)
StripColumns(t, cols, j) ==
    IF j > Len(cols) THEN [raised |-> FALSE, df |-> t]
    ELSE IF ~StrAccessorOk(Column(t, cols[j])) THEN [raised |-> TRUE, df |-> t]
    ELSE StripColumns(SetColumn(t, cols[j], StrStrip(Column(t, cols[j])), "object"),
                      cols, j + 1)

-----------------------------------------------------------------------------
(* Stage 3 *)

(* Series.fillna(value, inplace=True) through df[col] *)
FillNa(cells, value) ==
    [i \in 1..Len(cells) |-> IF IsNa(cells[i]) THEN value ELSE cells[i]]

NotNa(c) == ~IsNa(c)

(* the lower of the two middle values when the count is even *)
Median_LowerMiddle(cells) ==
    LET present == SelectSeq(cells, NotNa)
        s == SortSeq([i \in 1..Len(present) |-> present[i].v[1]], <)
        n == Len(s)
    IN IF n = 0 THEN NaN ELSE Num(s[(n + 1) \div 2])

(* Series.median(): NaN when nothing is present, else the middle value or  *)
(* the mean of the two middle values of the sorted non-missing values.     *)
Median(cells) ==
    LET present == SelectSeq(cells, NotNa)
        s == SortSeq([i \in 1..Len(present) |-> present[i].v[1]], <)
        n == Len(s)
    IN IF n = 0 THEN NaN
       ELSE IF n % 2 = 1 THEN Num(s[(n + 1) \div 2])
       ELSE Num((s[n \div 2] + s[n \div 2 + 1]) \div 2)

RECURSIVE FillMedians(_, _, _)
FillMedians(t, cols, j) ==
    IF j > Len(cols) THEN t
    ELSE FillMedians(
            SetColumn(t, cols[j],
                      FillNa(Column(t, cols[j]), Median(Column(t, cols[j]))),
                      t.dtypes[Loc(t, cols[j])]),
            cols, j + 1)

-----------------------------------------------------------------------------
(* Stage 4 *)

(* Order of two payloads, code point by code point (the order of str). *)
RECURSIVE SeqLess(_, _)
SeqLess(a, b) ==
    IF b = <<>> THEN FALSE
    ELSE IF a = <<>> THEN TRUE
    ELSE IF a[1] # b[1] THEN a[1] < b[1]
    ELSE SeqLess(Tail(a), Tail(b))

(* the same cells, largest first *)
RECURSIVE SortedCells_Descending(_)
SortedCells_Descending(S) ==
    IF S = {} THEN <<>>
    ELSE LET m == CHOOSE x \in S : \A y \in S \ {x} : SeqLess(y.v, x.v)
         IN <<m>> \o SortedCells_Descending(S \ {m})

RECURSIVE SortedCells(_)
SortedCells(S) ==
    IF S = {} THEN <<>>
    ELSE LET m == CHOOSE x \in S : \A y \in S \ {x} : SeqLess(x.v, y.v)
         IN <<m>> \o SortedCells(S \ {m})

ValueCount(cells, c) == Cardinality({i \in DOMAIN cells : cells[i] = c})

(* Series.mode(): the most frequent non-missing values, sorted. *)
Mode(cells) ==
    LET vals == {cells[i] : i \in {i \in DOMAIN cells : ~IsNa(cells[i])}}
        top == {c \in vals :
                  \A d \in vals : ValueCount(cells, d) <= ValueCount(cells, c)}
    IN SortedCells(top)

RECURSIVE FillModes(_, _, _)
FillModes(t, cols, j) ==
    IF j > Len(cols) THEN t
    ELSE LET mode_val == Mode(Column(t, cols[j]))
             fill == IF mode_val # <<>> THEN mode_val[1] ELSE Str(S_Unknown)
         IN FillModes(
               SetColumn(t, cols[j], FillNa(Column(t, cols[j]), fill), "object"),
               cols, j + 1)

-----------------------------------------------------------------------------
(* Stage 5 *)

IsDigit(c) == c \in 48..57
Digits(s, from, to) ==
    LET RECURSIVE Value(_, _)
        Value(i, acc) == IF i > to THEN acc ELSE Value(i + 1, 10 * acc + (s[i] - 48))
    IN Value(from, 0)

IsLeap(y) == (y % 4 = 0 /\ y % 100 # 0) \/ y % 400 = 0
DaysInMonth(y, m) ==
    IF m = 2 THEN (IF IsLeap(y) THEN 29 ELSE 28)
    ELSE IF m \in {4, 6, 9, 11} THEN 30 ELSE 31

(* A calendar date written YYYY-MM-DD, the one date format of the texts    *)
(* drawn here.                                                             *)
IsIsoDate(s) ==
    /\ Len(s) = 10
    /\ s[5] = 45 /\ s[8] = 45
    /\ \A i \in {1, 2, 3, 4, 6, 7, 9, 10} : IsDigit(s[i])
    /\ Digits(s, 6, 7) \in 1..12
    /\ Digits(s, 9, 10) \in 1..DaysInMonth(Digits(s, 1, 4), Digits(s, 6, 7))

(* The texts pandas reads as a missing date. *)
NatStrings == {<<>>, S_NaT, <<110, 97, 116>>, <<78, 65, 84>>,
               <<110, 97, 110>>, <<78, 97, 78>>, <<78, 65, 78>>}

(* pd.to_datetime on one value, errors='raise'. *)
ParseDatetime(c) ==
    IF IsNa(c) THEN [ok |-> TRUE, value |-> NaT]
    ELSE IF c.k = "date" THEN [ok |-> TRUE, value |-> c]
    ELSE IF c.k = "num" THEN [ok |-> TRUE, value |-> Timestamp(1970, 1, 1)]
    ELSE IF c.k = "str" /\ c.v \in NatStrings THEN [ok |-> TRUE, value |-> NaT]
    ELSE IF c.k = "str" /\ IsIsoDate(c.v)
         THEN [ok |-> TRUE,
               value |-> Timestamp(Digits(c.v, 1, 4), Digits(c.v, 6, 7), Digits(c.v, 9, 10))]
    ELSE [ok |-> FALSE, value |-> c]

(* pd.to_datetime(df[col], errors='coerce'): a rejected value becomes NaT *)
ToDatetime_Coerce(cells) ==
    [raised |-> FALSE,
     cells |-> [i \in 1..Len(cells) |->
                  IF ParseDatetime(cells[i]).ok THEN ParseDatetime(cells[i]).value
                  ELSE NaT]]

(* pd.to_datetime(df[col]): raises if any value is rejected. *)
ToDatetime(cells) ==
    IF \E i \in DOMAIN cells : ~ParseDatetime(cells[i]).ok
    THEN [raised |-> TRUE, cells |-> cells]
    ELSE [raised |-> FALSE,
          cells |-> [i \in 1..Len(cells) |-> ParseDatetime(cells[i]).value]]

(* The loop of lines 115-120 from its j-th column on. *)
RECURSIVE CoerceDates(_, _)
CoerceDates(t, j) ==
    IF j > NCols(t) THEN t
    ELSE IF t.dtypes[j] = "object" /\ ~ToDatetime(Column(t, t.columns[j])).raised
    THEN CoerceDates(SetColumn(t, t.columns[j],
                               ToDatetime(Column(t, t.columns[j])).cells,
                               "datetime64"),
                     j + 1)
    ELSE CoerceDates(t, j + 1)

-----------------------------------------------------------------------------
(* clean_data as a function of its argument *)

NumberDtypes == {"int64", "float64"}

CleanData(t) ==
    LET d1 == DropDuplicates(t)
        cols == SelectDtypes(d1, {"object"})
        s2 == StripColumns(d1, cols, 1)
        d3 == FillMedians(s2.df, SelectDtypes(s2.df, NumberDtypes), 1)
        d4 == FillModes(d3, cols, 1)
    IN IF s2.raised THEN s2 ELSE [raised |-> FALSE, df |-> CoerceDates(d4, 1)]

-----------------------------------------------------------------------------
(* Uploads *)

EmptyGrid == [header |-> <<>>, cells |-> <<>>]

(* The rows whose j-th cell is drawn from the j-th column's values. *)
RowSet(family) ==
    {r \in [1..Len(family) -> UNION {family[j].vals : j \in 1..Len(family)}] :
        \A j \in 1..Len(family) : r[j] \in family[j].vals}

Header(family) == [j \in 1..Len(family) |-> family[j].name]

(* What a CSV file can hold: columns of text, of numbers, of booleans. *)
CsvFamilies ==
    { <<[name |-> "a", vals |-> {NaN, Str(S_x), Str(S_x_padded), Str(S_y_trailing),
                                 Str(S_blank)}]>>,
      <<[name |-> "a", vals |-> {NaN, Str(S_x), Str(S_y)}],
        [name |-> "k", vals |-> {Num(2), Num(4)}]>>,
      <<[name |-> "v", vals |-> {NaN, Num(2), Num(4), Num(10)}]>>,
      <<[name |-> "name", vals |-> {Str(S_x), Str(S_y)}],
        [name |-> "val", vals |-> {NaN, Num(2), Num(8)}]>>,
      <<[name |-> "d", vals |-> {NaN, Str(S_2024_01_01), Str(S_2024_03_10_leading),
                                 Str(S_2024_02_30), Str(S_blank)}]>>,
      <<[name |-> "flag", vals |-> {NaN, Bool(1), Bool(0)}]>> }

(* What a workbook can hold besides: cells of several types in one column, *)
(* date cells, an empty sheet.                                             *)
ExcelFamilies ==
    { <<[name |-> "m", vals |-> {NaN, Str(S_y_trailing), Bool(1), Num(10)}]>>,
      <<[name |-> "t", vals |-> {NaN, Timestamp(2024, 1, 1), Timestamp(2024, 3, 10)}]>>,
      <<>> }

OldExcelFamilies ==
    { <<[name |-> "t", vals |-> {NaN, Timestamp(2024, 1, 1)}],
        [name |-> "s", vals |-> {Str(S_NaT), Str(S_2024_01_01)}]>> }

Upload(has_file, filename, parses, grid) ==
    [has_file |-> has_file, filename |-> filename, parses |-> parses, grid |-> grid]

OneGrid == [header |-> <<"a">>, cells |-> << <<Str(S_x)>> >>]

(* The requests that upload() turns down. *)
BadRequests ==
    {Upload(FALSE, <<>>, FALSE, EmptyGrid)}
    \cup {Upload(TRUE, <<>>, TRUE, OneGrid)}
    \cup {Upload(TRUE, n, TRUE, OneGrid) : n \in {Name_notes_txt, Name_DATA_CSV}}
    \cup {Upload(TRUE, n, FALSE, EmptyGrid) :
             n \in {Name_data_csv, Name_book_xlsx, Name_old_xls}}

(* The files that read into a table. *)
Sources ==
    {[filename |-> Name_data_csv, families |-> CsvFamilies],
     [filename |-> Name_book_xlsx, families |-> ExcelFamilies],
     [filename |-> Name_old_xls, families |-> OldExcelFamilies]}

NoResponse == [status |-> 0, body |-> "", mimetype |-> ""]
Rejection(message) == [status |-> 400, body |-> message, mimetype |-> "text/html"]

-----------------------------------------------------------------------------
(* The state machine *)

Init ==
    /\ \/ request \in BadRequests
       \/ \E src \in Sources : \E family \in src.families :
             \E n \in 0..MaxRows : \E cells \in [1..n -> RowSet(family)] :
                request = Upload(TRUE, src.filename, TRUE,
                                 [header |-> Header(family), cells |-> cells])
    /\ pc = "upload"
    /\ df = EmptyFrame
    /\ str_cols = <<>>
    /\ response = NoResponse

(* upload(), lines 130-146: the checks and the read. *)
UploadRead ==
    /\ pc = "upload"
    /\ \/ /\ ~request.has_file
          /\ response' = Rejection("No file uploaded")
          /\ pc' = "responded"
          /\ df' = df
       \/ /\ request.has_file
          /\ request.filename = <<>>
          /\ response' = Rejection("No selected file")
          /\ pc' = "responded"
          /\ df' = df
       \/ /\ request.has_file
          /\ request.filename # <<>>
          /\ EndsWith(request.filename, Ext_csv)
          /\ request.parses
          /\ df' = ReadTable(request.grid)
          /\ pc' = "stage1"
          /\ response' = response
       \/ /\ request.has_file
          /\ request.filename # <<>>
          /\ ~EndsWith(request.filename, Ext_csv)
          /\ EndsWith(request.filename, Ext_xls) \/ EndsWith(request.filename, Ext_xlsx)
          /\ request.parses
          /\ df' = ReadTable(request.grid)
          /\ pc' = "stage1"
          /\ response' = response
       \/ /\ request.has_file
          /\ request.filename # <<>>
          /\ ~EndsWith(request.filename, Ext_csv)
          /\ ~EndsWith(request.filename, Ext_xls)
          /\ ~EndsWith(request.filename, Ext_xlsx)
          /\ response' = Rejection("Unsupported file format. Please upload CSV or Excel file.")
          /\ pc' = "responded"
          /\ df' = df
       \/ /\ request.has_file
          /\ request.filename # <<>>
          /\ \/ EndsWith(request.filename, Ext_csv)
             \/ EndsWith(request.filename, Ext_xls)
             \/ EndsWith(request.filename, Ext_xlsx)
          /\ ~request.parses
          /\ response' = Rejection("Error reading file")
          /\ pc' = "responded"
          /\ df' = df
    /\ UNCHANGED <<request, str_cols>>

(* clean_data, line 93 *)
Stage1 ==
    /\ pc = "stage1"
    /\ df' = DropDuplicates(df)
    /\ pc' = "stage2"
    /\ UNCHANGED <<request, str_cols, response>>

(* clean_data, lines 96-98; an AttributeError leaves clean_data and upload *)
Stage2 ==
    /\ pc = "stage2"
    /\ str_cols' = SelectDtypes(df, {"object"})
    /\ df' = StripColumns(df, str_cols', 1).df
    /\ pc' = IF StripColumns(df, str_cols', 1).raised THEN "raised" ELSE "stage3"
    /\ UNCHANGED <<request, response>>

(* clean_data, lines 101-104 *)
Stage3 ==
    /\ pc = "stage3"
    /\ df' = FillMedians(df, SelectDtypes(df, NumberDtypes), 1)
    /\ pc' = "stage4"
    /\ UNCHANGED <<request, str_cols, response>>

(* clean_data, lines 107-112 *)
Stage4 ==
    /\ pc = "stage4"
    /\ df' = FillModes(df, str_cols, 1)
    /\ pc' = "stage5"
    /\ UNCHANGED <<request, str_cols, response>>

(* clean_data, lines 115-122 *)
Stage5 ==
    /\ pc = "stage5"
    /\ df' = CoerceDates(df, 1)
    /\ pc' = "cleaned"
    /\ UNCHANGED <<request, str_cols, response>>

(* upload(), lines 152-162: the cleaned table goes out as a CSV attachment *)
SendFile ==
    /\ pc = "cleaned"
    /\ response' = [status |-> 200, body |-> "cleaned_data.csv", mimetype |-> "text/csv"]
    /\ pc' = "responded"
    /\ UNCHANGED <<request, df, str_cols>>

Next == UploadRead \/ Stage1 \/ Stage2 \/ Stage3 \/ Stage4 \/ Stage5 \/ SendFile

Spec == Init /\ [][Next]_vars

-----------------------------------------------------------------------------
(* Vocabulary of the properties *)

(* The table handed to clean_data. *)
Input == ReadTable(request.grid)

(* clean_data has returned and df is its output. *)
Returned == pc = "cleaned" \/ (pc = "responded" /\ response.status = 200)

(* Row i of df is the input row with the same label. *)
Origin(i) == Input.rows[df.index[i] + 1]

(* s is raw without its leading and trailing whitespace. *)
IsStrippedOf(s, raw) ==
    /\ s = <<>> \/ (~IsSpace(s[1]) /\ ~IsSpace(s[Len(s)]))
    /\ \E p \in 0..Len(raw) : \E q \in p..Len(raw) :
          /\ s = SubSeq(raw, p + 1, q)
          /\ \A i \in 1..p : IsSpace(raw[i])
          /\ \A i \in (q + 1)..Len(raw) : IsSpace(raw[i])

(* The file name is a stem followed by one of the three extensions. *)
SupportedName(n) ==
    \E ext \in {Ext_csv, Ext_xls, Ext_xlsx} :
        /\ Len(n) >= Len(ext)
        /\ n = SubSeq(n, 1, Len(n) - Len(ext)) \o ext

Readable ==
    /\ request.has_file
    /\ request.filename # <<>>
    /\ SupportedName(request.filename)
    /\ request.parses

-----------------------------------------------------------------------------
(* C1: clean_data is idempotent: cleaning its own output returns that      *)
(* output unchanged (same rows, same cells, same column types).            *)
C1_Idempotent ==
    Returned => (~CleanData(df).raised /\ CleanData(df).df = df)

(* C2: the rows of df, from stage 1 on, are exactly the first occurrences  *)
(* of the distinct input rows, in input order; no later stage adds or      *)
(* removes a row, so the row count is the number of distinct input rows    *)
(* and at most the input row count.                                        *)
C2_FirstOccurrencesKept ==
    (pc \in {"stage2", "stage3", "stage4", "stage5", "raised"} \/ Returned) =>
        /\ NRows(df) <= NRows(Input)
        /\ NRows(df) = Cardinality({Input.rows[i] : i \in 1..NRows(Input)})
        /\ Len(df.index) = NRows(df)
        /\ \A i \in 1..NRows(df) :
              /\ df.index[i] \in 0..(NRows(Input) - 1)
              /\ \A j \in 1..df.index[i] : Input.rows[j] # Origin(i)
              /\ \A j \in 1..(i - 1) : df.index[j] < df.index[i]
              /\ pc = "stage2" => df.rows[i] = Origin(i)

C2_Witness ==
    /\ Returned
    /\ NRows(Input) = 4
    /\ df.index = <<0, 2>>

(* C3: a column of the input with at least one non-missing value has no    *)
(* missing value in the output, whatever its type.                         *)
C3_NoMissingLeft ==
    Returned =>
        \A j \in 1..NCols(Input) :
            (\E i \in 1..NRows(Input) : ~IsNa(Input.rows[i][j]))
                => \A i \in 1..NRows(df) : ~IsNa(df.rows[i][j])

(* C5: from stage 2 on, and in the output, no text cell of a column of the *)
(* text-column set starts or ends with whitespace, filled cells included.  *)
C5_NoOuterWhitespace ==
    (pc \in {"stage3", "stage4", "stage5"} \/ Returned) =>
        \A n \in 1..Len(str_cols) : \A i \in 1..NRows(df) :
            LET c == Column(df, str_cols[n])[i]
            IN c.k = "str" =>
                  c.v = <<>> \/ (~IsSpace(c.v[1]) /\ ~IsSpace(c.v[Len(c.v)]))

C5_Witness ==
    /\ Returned
    /\ str_cols = <<"a">>
    /\ \E i \in 1..NRows(df) : Origin(i)[1] = Str(S_x_padded) /\ df.rows[i][1] = Str(S_x)
    /\ \E i \in 1..NRows(df) : Origin(i)[1] = NaN /\ df.rows[i][1].k = "str"

(* C6: at every point of clean_data, and in its output, the column names   *)
(* and their order are those of the input.                                 *)
C6_ColumnsKept ==
    (pc \in {"stage1", "stage2", "stage3", "stage4", "stage5", "raised"} \/ Returned) =>
        /\ df.columns = Input.columns
        /\ Len(df.dtypes) = NCols(df)
        /\ \A i \in 1..NRows(df) : Len(df.rows[i]) = NCols(Input)

C6_Witness ==
    /\ Returned
    /\ df.columns = <<"t", "s">>
    /\ df.dtypes # Input.dtypes
    /\ NRows(df) >= 2

(* C7: clean_data never raises, whatever table it is given.                *)
C7_NoThrow == pc # "raised"

(* C8: a request with no file part, an empty file name, an unsupported     *)
(* extension or unreadable content is answered 400 and never reaches       *)
(* clean_data or the download; only a table the reader produced does.      *)
C8_UnreadableRejected ==
    /\ pc \notin {"upload", "responded"} => Readable
    /\ (pc = "responded" /\ ~Readable) =>
          (response.status = 400 /\ df = EmptyFrame /\ str_cols = <<>>)
    /\ (pc = "responded" /\ response.status = 200) =>
          (Readable /\ response.mimetype = "text/csv")

C8_Witness ==
    /\ pc = "responded"
    /\ response.status = 400
    /\ request.has_file
    /\ SupportedName(request.filename)
    /\ ~request.parses

-----------------------------------------------------------------------------
C9_ModeFill ==
    [][pc = "stage4" =>
        /\ str_cols' = str_cols
        /\ str_cols = SelectSeq(Input.columns,
                                LAMBDA n : Input.dtypes[Loc(Input, n)] = "object")
        /\ \A n \in 1..Len(str_cols) :
            LET j == Loc(df, str_cols[n])
                before == [i \in 1..NRows(df) |-> df.rows[i][j]]
                after == [i \in 1..NRows(df') |-> df'.rows[i][j]]
                Count(c) == Cardinality({i \in 1..Len(before) : before[i] = c})
                present == {before[i] : i \in {i \in 1..Len(before) : ~IsNa(before[i])}}
            IN /\ Len(after) = Len(before)
               /\ \A i \in 1..Len(before) :
                     /\ before[i].k = "str" =>
                           Origin(i)[j].k = "str" /\ IsStrippedOf(before[i].v, Origin(i)[j].v)
                     /\ IsNa(before[i]) => Origin(i)[j].k # "str"
                     /\ ~IsNa(before[i]) => after[i] = before[i]
                     /\ (IsNa(before[i]) /\ present = {}) => after[i] = Str(S_Unknown)
                     /\ (IsNa(before[i]) /\ present # {}) =>
                           /\ after[i] \in present
                           /\ \A c \in present :
                                 \/ Count(c) < Count(after[i])
                                 \/ /\ Count(c) = Count(after[i])
                                    /\ ~SeqLess(c.v, after[i].v)]_vars

C9_Witness ==
    /\ pc = "stage5"
    /\ str_cols = <<"a">>
    /\ NCols(df) = 2
    /\ \E i \in 1..NRows(df) : Origin(i)[1] = NaN /\ df.rows[i][1] = Str(S_y)
    /\ \E i \in 1..NRows(df) : df.rows[i][1] = Str(S_x)

(* C10: stage 3 works on the numeric columns, none of them a text column,  *)
(* over the rows that survive deduplication; it leaves a present cell as   *)
(* it is and gives a missing cell the median of the present values of its  *)
(* column; a column with no present value stays entirely missing.          *)
C10_MedianFill ==
    [][pc = "stage3" =>
        \A j \in 1..NCols(df) : df.dtypes[j] \in {"int64", "float64"} =>
            LET before == [i \in 1..NRows(df) |-> df.rows[i][j]]
                after == [i \in 1..NRows(df') |-> df'.rows[i][j]]
                vals == {i \in 1..Len(before) : ~IsNa(before[i])}
                n == Cardinality(vals)
                Below(x) == Cardinality({i \in vals : before[i].v[1] < x})
                AtMost(x) == Cardinality({i \in vals : before[i].v[1] <= x})
                Kth(k, x) == (\E i \in vals : before[i].v[1] = x)
                                /\ Below(x) < k /\ k <= AtMost(x)
            IN /\ df.columns[j] \notin {str_cols[m] : m \in 1..Len(str_cols)}
               /\ Len(after) = Len(before)
               /\ \A i \in 1..Len(before) :
                     /\ before[i] = Origin(i)[j]
                     /\ ~IsNa(before[i]) => after[i] = before[i]
                     /\ (IsNa(before[i]) /\ n = 0) => after[i] = before[i]
                     /\ (IsNa(before[i]) /\ n > 0) =>
                           /\ after[i].k = "num"
                           /\ \E lo \in 0..after[i].v[1] :
                                 LET hi == 2 * after[i].v[1] - lo
                                 IN IF n % 2 = 1
                                    THEN lo = hi /\ Kth((n + 1) \div 2, lo)
                                    ELSE Kth(n \div 2, lo) /\ Kth(n \div 2 + 1, hi)]_vars

C10_Witness ==
    /\ pc = "stage4"
    /\ NRows(Input) = 3
    /\ Input.rows[3] = <<Str(S_y), NaN>>
    /\ df.rows = << <<Str(S_x), Num(2)>>, <<Str(S_y), Num(2)>> >>

====
